---- MODULE Spec2Model ----
(***************************************************************************)
(* LS-8 emulator (src/ls8/cpu.py): the CPU object and one iteration of     *)
(* CPU.run per action.                                                     *)
(*                                                                         *)
(* Python values.  A register, a memory cell and the PC hold Python        *)
(* numbers: unbounded ints, or floats once DIV (true division, "/=") has    *)
(* run.  A value is a record [n, d, f]: f is TRUE for a float, and the     *)
(* number is n/d in lowest terms (d = 1 for every int).  A float n/d       *)
(* stands for the double nearest to n/d; d = -1 with n = 0 is the float    *)
(* -0.0.  A float too large for n is held by its exponent: n = +-1, d = 1  *)
(* and e = k stand for +-2^k, and e = 1024, past the largest double, for   *)
(* +-inf (e = 0 for every other value); n = 0 with d = 0 is the float nan. *)
(* Arithmetic on floats is modelled only where the double result is exact  *)
(* (see InModel); the rest lies beyond the bounds of the model.            *)
(***************************************************************************)
EXTENDS Integers, Sequences, FiniteSets, TLC

\* ---- bounds of the model ------------------------------------------------
MaxImm == 3            \* immediates of the generated images are 0..MaxImm
MaxAbs == 1000         \* numerators and denominators explored: |n|, d <= MaxAbs
MaxShift == 8          \* largest shift count explored by SHL
MaxOut == 4            \* most lines of output explored
MaxTally == 600        \* most PUSH and CALL, and most POP and RET, explored

\* ---- opcodes (cpu.py 7-39) ----------------------------------------------
HLT == 1
LDI == 130
PRN == 71
POP == 70
PUSH == 69
CALL == 80
RET == 17
JMP == 84
JEQ == 85
JNE == 86
ADD == 160
SUB == 161
MUL == 162
DIV == 163
MOD == 164
INC == 101
DEC == 102
CMP == 167
AND == 168
NOT == 105
OR == 170
XOR == 171
SHL == 172
SHR == 173
SP == 7

RamSize == 256
NumRegs == 8
InitSP == 244

\* ---- Python numbers -----------------------------------------------------
IntV(n) == [n |-> n, d |-> 1, f |-> FALSE, e |-> 0]

Abs(n) == IF n < 0 THEN 0 - n ELSE n

RECURSIVE Gcd(_, _)
Gcd(a, b) == IF b = 0 THEN a ELSE Gcd(b, a % b)

\* the float a / b of two ints, b # 0 (int.__truediv__)
TrueDiv(a, b) ==
    IF a = 0
    THEN [n |-> 0, d |-> (IF b < 0 THEN 0 - 1 ELSE 1), f |-> TRUE, e |-> 0]
    ELSE LET g == Gcd(Abs(a), Abs(b))
             s == IF b < 0 THEN 0 - 1 ELSE 1
         IN  [n |-> (s * a) \div g, d |-> Abs(b) \div g, f |-> TRUE,
              e |-> 0]

\* the int a % b of two ints, b # 0: the sign of the result follows b
PyMod(a, b) == IF b > 0 THEN a % b ELSE 0 - ((0 - a) % (0 - b))

RECURSIVE IsPow2(_)
IsPow2(k) == IF k = 1 THEN TRUE
             ELSE IF k < 1 \/ k % 2 = 1 THEN FALSE ELSE IsPow2(k \div 2)

\* a value whose double is the number n/d itself (not -0.0, not rounded,
\* not held by its exponent, not inf, not nan)
Exact(x) == x.d >= 1 /\ x.e = 0 /\ IsPow2(x.d)

\* the floats inf, -inf and nan
NaN == [n |-> 0, d |-> 0, f |-> TRUE, e |-> 0]
IsNaN(x) == x.d = 0
IsInf(x) == x.e >= 1024
NonFinite(x) == IsNaN(x) \/ IsInf(x)

\* the int 0 and the floats 0.0 and -0.0
IsZero(x) == x.n = 0 /\ x.d # 0

\* x + k for a value x and an int k (int + int, or float + int)
AddInt(x, k) == [n |-> x.n + k * x.d, d |-> x.d, f |-> x.f, e |-> x.e]

\* comparisons of two numbers, int or float: nan is neither less than nor
\* equal to anything, itself included; a float held by its exponent lies
\* beyond every number held by n and d, on the side of its sign
Beyond(x) == x.n * x.e

Less(x, y) ==
    /\ ~IsNaN(x) /\ ~IsNaN(y)
    /\ IF x.e = 0 /\ y.e = 0 THEN x.n * Abs(y.d) < y.n * Abs(x.d)
                             ELSE Beyond(x) < Beyond(y)

Same(x, y) ==
    /\ ~IsNaN(x) /\ ~IsNaN(y)
    /\ IF x.e = 0 /\ y.e = 0 THEN x.n * Abs(y.d) = y.n * Abs(x.d)
                             ELSE Beyond(x) = Beyond(y)

RECURSIVE Pow2(_)
Pow2(k) == IF k = 0 THEN 1 ELSE 2 * Pow2(k - 1)

\* Python's &, |, ^ on unbounded two's-complement ints
RECURSIVE BitAnd(_, _)
BitAnd(a, b) ==
    IF a = 0 \/ b = 0 THEN 0
    ELSE IF a = 0 - 1 THEN b
    ELSE IF b = 0 - 1 THEN a
    ELSE 2 * BitAnd(a \div 2, b \div 2) + (a % 2) * (b % 2)

RECURSIVE BitOr(_, _)
BitOr(a, b) ==
    IF a = 0 THEN b
    ELSE IF b = 0 THEN a
    ELSE IF a = 0 - 1 \/ b = 0 - 1 THEN 0 - 1
    ELSE 2 * BitOr(a \div 2, b \div 2)
           + (IF a % 2 = 1 \/ b % 2 = 1 THEN 1 ELSE 0)

RECURSIVE BitXor(_, _)
BitXor(a, b) ==
    IF a = 0 THEN b
    ELSE IF b = 0 THEN a
    ELSE IF a = 0 - 1 THEN 0 - b - 1
    ELSE IF b = 0 - 1 THEN 0 - a - 1
    ELSE 2 * BitXor(a \div 2, b \div 2) + (((a % 2) + (b % 2)) % 2)

\* ---- list indexing (self.ram[...], self.reg[...]) -------------------------
\* the exception Python raises for index v into a list of the given size
IndexErr(v, size) ==
    IF v.f THEN "TypeError"
    ELSE IF v.n < 0 - size \/ v.n >= size THEN "IndexError"
    ELSE "none"

\* the cell a valid index names: negative indices count from the end
Slot(v, size) == IF v.n < 0 THEN v.n + size ELSE v.n

\* x + y and x - y for two numbers (float as soon as one of them is)
Norm(n, d, f) ==
    IF n = 0 THEN [n |-> 0, d |-> 1, f |-> f, e |-> 0]
    ELSE LET g == Gcd(Abs(n), d)
         IN  [n |-> n \div g, d |-> d \div g, f |-> f, e |-> 0]

\* faulty variant of SubV: the operands exchanged (y - x)
SubV_swapped(x, y) == Norm(y.n * x.d - x.n * y.d, x.d * y.d, x.f \/ y.f)

\* the sum of two floats out of inf, -inf, nan: inf + inf = inf,
\* inf + -inf = nan, and nan with anything is nan
AddNonFinite(x, y) ==
    IF IsNaN(x) \/ IsNaN(y) \/ x.n # y.n THEN NaN ELSE x

AddV(x, y) ==
    IF NonFinite(x) \/ NonFinite(y) THEN AddNonFinite(x, y)
    ELSE Norm(x.n * y.d + y.n * x.d, x.d * y.d, x.f \/ y.f)

SubV(x, y) ==
    IF NonFinite(x) \/ NonFinite(y)
    THEN AddNonFinite(x, [y EXCEPT !.n = 0 - y.n])
    ELSE Norm(x.n * y.d - y.n * x.d, x.d * y.d, x.f \/ y.f)

\* numbers of the form +-2^k with k >= 0, ints or floats, inf included
IsTwoPower(x) == x.d = 1 /\ (x.e # 0 \/ IsPow2(Abs(x.n)))

RECURSIVE Log2(_)
Log2(n) == IF n <= 1 THEN 0 ELSE 1 + Log2(n \div 2)

\* the float s * 2^k for s = 1 or -1: inf past the largest double, held by its
\* exponent when 2^k is more than n holds
TwoPower(s, k) ==
    IF k >= 1024 THEN [n |-> s, d |-> 1, f |-> TRUE, e |-> 1024]
    ELSE IF k > 30 \/ Pow2(k) > MaxAbs
    THEN [n |-> s, d |-> 1, f |-> TRUE, e |-> k]
    ELSE [n |-> s * Pow2(k), d |-> 1, f |-> TRUE, e |-> 0]

\* x * y: the int product of two ints; with a float among them, the float
\* product of two numbers of the form +-2^k
MulV(x, y) ==
    IF ~(x.f) /\ ~(y.f) THEN IntV(x.n * y.n)
    ELSE TwoPower((IF (x.n < 0) = (y.n < 0) THEN 1 ELSE 0 - 1),
                  (IF x.e # 0 THEN x.e ELSE Log2(Abs(x.n)))
                  + (IF y.e # 0 THEN y.e ELSE Log2(Abs(y.n))))

\* n >> k for ints n and k >= 0
RECURSIVE ShiftRight(_, _)
ShiftRight(n, k) ==
    IF k = 0 \/ n = 0 \/ n = 0 - 1 THEN n ELSE ShiftRight(n \div 2, k - 1)

\* ---- the CPU object -------------------------------------------------------
\* A machine m is the record of the CPU's fields, the lines printed so far,
\* and the exception that ended the run ("none" while it runs).
\* cpu is the machine of the run: cpu.ram, cpu.reg, cpu.PC, cpu.FL are the
\* fields of the CPU object, cpu.out the lines printed, cpu.exc the exception.
\* prev and prev2 remember the machine before the last step and before the
\* step preceding it; frame remembers the last CALL: its address p, the stack
\* pointer sp before it, whether its return slot is unchanged since (intact),
\* whether its subroutine is running (open), and whether the last step was
\* the RET that closed it with the stack balanced (returned).  tally counts
\* the stack instructions of the run: down the PUSH and CALL executed, tried
\* the POP and RET executed, up those of them that ran to their end; named
\* tells whether register 7 has been the destination of LDI, POP or the ALU.
VARIABLES cpu, prev, prev2, frame, tally

vars == <<cpu, prev, prev2, frame, tally>>

Raise(m, e) == [m EXCEPT !.exc = e]

NumberLine(x) == [text |-> "number", v |-> x]
UnsupportedLine == [text |-> "Unsupported operation", v |-> IntV(0)]

ram_read(m, address) == m.ram[Slot(address, RamSize)]

ram_write(m, address, value) ==
    IF IndexErr(address, RamSize) # "none"
    THEN Raise(m, IndexErr(address, RamSize))
    ELSE [m EXCEPT !.ram[Slot(address, RamSize)] = value]

ldi(m, op_a, op_b) ==
    IF IndexErr(op_a, NumRegs) # "none"
    THEN Raise(m, IndexErr(op_a, NumRegs))
    ELSE [m EXCEPT !.reg[Slot(op_a, NumRegs)] = op_b]

\* faulty variant of prn: the operand byte is printed, not the register
prn_operand(m, op_a, op_b) ==
    IF IndexErr(op_a, NumRegs) # "none"
    THEN Raise(m, IndexErr(op_a, NumRegs))
    ELSE [m EXCEPT !.out = Append(@, NumberLine(op_a))]

prn(m, op_a, op_b) ==
    IF IndexErr(op_a, NumRegs) # "none"
    THEN Raise(m, IndexErr(op_a, NumRegs))
    ELSE [m EXCEPT !.out = Append(@, NumberLine(m.reg[Slot(op_a, NumRegs)]))]

\* faulty variant of hlt: the handler returns and the loop goes on
hlt_returns(m, op_a, op_b) == m

hlt(m, op_a, op_b) == Raise(m, "SystemExit")

\* faulty variant of pop: the stack pointer is raised before the read
pop_after_increment(m, op_a, op_b) ==
    LET m1 == [m EXCEPT !.reg[SP] = AddInt(@, 1)]
    IN  IF IndexErr(m1.reg[SP], RamSize) # "none"
        THEN Raise(m1, IndexErr(m1.reg[SP], RamSize))
        ELSE IF IndexErr(op_a, NumRegs) # "none"
        THEN Raise(m1, IndexErr(op_a, NumRegs))
        ELSE [m1 EXCEPT !.reg[Slot(op_a, NumRegs)] = ram_read(m1, m1.reg[SP])]

\* reg[op_a] = ram[reg[SP]], then reg[SP] += 1 on the register file as it is
\* after the assignment
pop(m, op_a, op_b) ==
    IF IndexErr(m.reg[SP], RamSize) # "none"
    THEN Raise(m, IndexErr(m.reg[SP], RamSize))
    ELSE IF IndexErr(op_a, NumRegs) # "none"
    THEN Raise(m, IndexErr(op_a, NumRegs))
    ELSE LET m1 == [m EXCEPT !.reg[Slot(op_a, NumRegs)] =
                                  ram_read(m, m.reg[SP])]
         IN  [m1 EXCEPT !.reg[SP] = AddInt(@, 1)]

\* reg[SP] -= 1 is done before anything can fail
push(m, op_a, op_b) ==
    LET m1 == [m EXCEPT !.reg[SP] = AddInt(@, 0 - 1)]
    IN  IF IndexErr(op_a, NumRegs) # "none"
        THEN Raise(m1, IndexErr(op_a, NumRegs))
        ELSE ram_write(m1, m1.reg[SP], m1.reg[Slot(op_a, NumRegs)])

\* faulty variant of call: the address of the CALL itself is pushed
call_pushes_pc(m, op_a, op_b) ==
    LET m1 == [m EXCEPT !.reg[SP] = AddInt(@, 0 - 1)]
        m2 == ram_write(m1, m1.reg[SP], m1.PC)
    IN  IF m2.exc # "none" THEN m2
        ELSE IF IndexErr(op_a, NumRegs) # "none"
        THEN Raise(m2, IndexErr(op_a, NumRegs))
        ELSE [m2 EXCEPT !.PC = m2.reg[Slot(op_a, NumRegs)]]

call(m, op_a, op_b) ==
    LET m1 == [m EXCEPT !.reg[SP] = AddInt(@, 0 - 1)]
        m2 == ram_write(m1, m1.reg[SP], AddInt(m1.PC, 2))
    IN  IF m2.exc # "none" THEN m2
        ELSE IF IndexErr(op_a, NumRegs) # "none"
        THEN Raise(m2, IndexErr(op_a, NumRegs))
        ELSE [m2 EXCEPT !.PC = m2.reg[Slot(op_a, NumRegs)]]

\* faulty variant of ret: the stack pointer is left on the return address
ret_keeps_sp(m, op_a, op_b) ==
    IF IndexErr(m.reg[SP], RamSize) # "none"
    THEN Raise(m, IndexErr(m.reg[SP], RamSize))
    ELSE [m EXCEPT !.PC = ram_read(m, m.reg[SP])]

ret(m, op_a, op_b) ==
    IF IndexErr(m.reg[SP], RamSize) # "none"
    THEN Raise(m, IndexErr(m.reg[SP], RamSize))
    ELSE LET m1 == [m EXCEPT !.PC = ram_read(m, m.reg[SP])]
         IN  [m1 EXCEPT !.reg[SP] = AddInt(@, 1)]

jmp(m, op_a, op_b) ==
    IF IndexErr(op_a, NumRegs) # "none"
    THEN Raise(m, IndexErr(op_a, NumRegs))
    ELSE [m EXCEPT !.PC = m.reg[Slot(op_a, NumRegs)]]

jeq(m, op_a, op_b) ==
    IF m.FL % 2 = 1
    THEN IF IndexErr(op_a, NumRegs) # "none"
         THEN Raise(m, IndexErr(op_a, NumRegs))
         ELSE [m EXCEPT !.PC = m.reg[Slot(op_a, NumRegs)]]
    ELSE [m EXCEPT !.PC = AddInt(@, 2)]

\* faulty variant of jne: the flags are consumed by the test
jne_clears_flags(m, op_a, op_b) ==
    IF m.FL % 2 = 0
    THEN IF IndexErr(op_a, NumRegs) # "none"
         THEN Raise(m, IndexErr(op_a, NumRegs))
         ELSE [m EXCEPT !.PC = m.reg[Slot(op_a, NumRegs)], !.FL = 0]
    ELSE [m EXCEPT !.PC = AddInt(@, 2), !.FL = 0]

jne(m, op_a, op_b) ==
    IF m.FL % 2 = 0
    THEN IF IndexErr(op_a, NumRegs) # "none"
         THEN Raise(m, IndexErr(op_a, NumRegs))
         ELSE [m EXCEPT !.PC = m.reg[Slot(op_a, NumRegs)]]
    ELSE [m EXCEPT !.PC = AddInt(@, 2)]

\* ---- the ALU (cpu.py 168-206) ----------------------------------------------
\* faulty variant of Store: the result is latched in R0 as well
Store_alsoR0(m, reg_a, v) ==
    [m EXCEPT !.reg[Slot(reg_a, NumRegs)] = v, !.reg[0] = v]

\* self.reg[reg_a] = v
Store(m, reg_a, v) == [m EXCEPT !.reg[Slot(reg_a, NumRegs)] = v]

\* faulty variant of DivMod: a zero divisor silently gives 0
DivMod_silent(m, op, reg_a, x, y) ==
    IF IsZero(y) THEN [m EXCEPT !.reg[Slot(reg_a, NumRegs)] = IntV(0)]
    ELSE IF Same(op, IntV(DIV))
    THEN [m EXCEPT !.reg[Slot(reg_a, NumRegs)] = TrueDiv(x.n, y.n)]
    ELSE [m EXCEPT !.reg[Slot(reg_a, NumRegs)] = IntV(PyMod(x.n, y.n))]

\* cpu.py 177-180: reg[reg_a] /= y and reg[reg_a] %= y for ints x = reg[reg_a]
\* and y; "/=" is true division, the quotient of two ints is a float; a zero
\* divisor raises before anything is stored
DivMod(m, op, reg_a, x, y) ==
    IF IsZero(y) THEN Raise(m, "ZeroDivisionError")
    ELSE IF Same(op, IntV(DIV)) THEN Store(m, reg_a, TrueDiv(x.n, y.n))
    ELSE Store(m, reg_a, IntV(PyMod(x.n, y.n)))

\* faulty variant of Flags: the E bit is never set
Flags_noEqual(x, y) ==
    (IF Less(x, y) THEN 4 ELSE 0) + (IF Less(y, x) THEN 2 ELSE 0)

\* cpu.py 202-204: the flags of CMP, L = 4, G = 2, E = 1
Flags(x, y) ==
    (IF Less(x, y) THEN 4 ELSE 0) + (IF Less(y, x) THEN 2 ELSE 0)
    + (IF Same(x, y) THEN 1 ELSE 0)

\* op is the fetched opcode; reg_a and reg_b are the raw operand bytes.
\* An augmented assignment reads reg[reg_a], then reg[reg_b], then computes,
\* then stores: a failure anywhere leaves the register file as it was.
\* DIV and MOD are computed here for int operands (see InModel).
alu(m, op, reg_a, reg_b) ==
    LET ea == IndexErr(reg_a, NumRegs)
        eb == IndexErr(reg_b, NumRegs)
        eab == IF ea # "none" THEN ea ELSE eb
        x == m.reg[Slot(reg_a, NumRegs)]
        y == m.reg[Slot(reg_b, NumRegs)]
        Is(code) == Same(op, IntV(code))
    IN  IF Is(ADD) THEN
            IF eab # "none" THEN Raise(m, eab) ELSE Store(m, reg_a, AddV(x, y))
        ELSE IF Is(SUB) THEN
            IF eab # "none" THEN Raise(m, eab) ELSE Store(m, reg_a, SubV(x, y))
        ELSE IF Is(MUL) THEN
            IF eab # "none" THEN Raise(m, eab)
            ELSE Store(m, reg_a, MulV(x, y))
        ELSE IF Is(DIV) \/ Is(MOD) THEN
            IF eab # "none" THEN Raise(m, eab)
            ELSE DivMod(m, op, reg_a, x, y)
        ELSE IF Is(AND) THEN
            IF eab # "none" THEN Raise(m, eab)
            ELSE IF x.f \/ y.f THEN Raise(m, "TypeError")
            ELSE Store(m, reg_a, IntV(BitAnd(x.n, y.n)))
        ELSE IF Is(OR) THEN
            IF eab # "none" THEN Raise(m, eab)
            ELSE IF x.f \/ y.f THEN Raise(m, "TypeError")
            ELSE Store(m, reg_a, IntV(BitOr(x.n, y.n)))
        ELSE IF Is(XOR) THEN
            IF eab # "none" THEN Raise(m, eab)
            ELSE IF x.f \/ y.f THEN Raise(m, "TypeError")
            ELSE Store(m, reg_a, IntV(BitXor(x.n, y.n)))
        ELSE IF Is(NOT) THEN
            IF ea # "none" THEN Raise(m, ea)
            ELSE IF x.f THEN Raise(m, "TypeError")
            ELSE Store(m, reg_a, IntV(0 - x.n - 1))
        ELSE IF Is(SHL) THEN
            IF ea # "none" THEN Raise(m, ea)
            ELSE IF x.f \/ reg_b.f THEN Raise(m, "TypeError")
            ELSE IF reg_b.n < 0 THEN Raise(m, "ValueError")
            ELSE Store(m, reg_a, IntV(x.n * Pow2(reg_b.n)))
        ELSE IF Is(SHR) THEN
            IF ea # "none" THEN Raise(m, ea)
            ELSE IF x.f \/ reg_b.f THEN Raise(m, "TypeError")
            ELSE IF reg_b.n < 0 THEN Raise(m, "ValueError")
            ELSE Store(m, reg_a, IntV(ShiftRight(x.n, reg_b.n)))
        ELSE IF Is(INC) THEN
            IF ea # "none" THEN Raise(m, ea) ELSE Store(m, reg_a, AddInt(x, 1))
        ELSE IF Is(DEC) THEN
            IF ea # "none" THEN Raise(m, ea)
            ELSE Store(m, reg_a, AddInt(x, 0 - 1))
        ELSE IF Is(CMP) THEN
            IF eab # "none" THEN Raise(m, eab)
            ELSE [m EXCEPT !.FL = Flags(x, y)]
        ELSE Raise(m, "Exception: Unsupported ALU operation")

\* ---- dispatch (cpu.py 54-85) ----------------------------------------------
branch_table ==
    (HLT :> "hlt") @@ (LDI :> "ldi") @@ (PRN :> "prn") @@ (POP :> "pop")
    @@ (PUSH :> "push") @@ (CALL :> "call") @@ (RET :> "ret")
    @@ (JMP :> "jmp") @@ (JEQ :> "jeq") @@ (JNE :> "jne")
    @@ (ADD :> "alu") @@ (SUB :> "alu") @@ (MUL :> "alu") @@ (DIV :> "alu")
    @@ (MOD :> "alu") @@ (INC :> "alu") @@ (DEC :> "alu") @@ (CMP :> "alu")
    @@ (AND :> "alu") @@ (NOT :> "alu") @@ (OR :> "alu") @@ (XOR :> "alu")
    @@ (SHL :> "alu") @@ (SHR :> "alu")

\* calling the bound method h with the argument list args; a list of the
\* wrong length for the method's signature is a TypeError
Invoke(h, m, args) ==
    IF h = "alu"
    THEN IF Len(args) = 3 THEN alu(m, args[1], args[2], args[3])
         ELSE Raise(m, "TypeError")
    ELSE IF Len(args) # 2 THEN Raise(m, "TypeError")
    ELSE CASE h = "hlt" -> hlt(m, args[1], args[2])
           [] h = "ldi" -> ldi(m, args[1], args[2])
           [] h = "prn" -> prn(m, args[1], args[2])
           [] h = "pop" -> pop(m, args[1], args[2])
           [] h = "push" -> push(m, args[1], args[2])
           [] h = "call" -> call(m, args[1], args[2])
           [] h = "ret" -> ret(m, args[1], args[2])
           [] h = "jmp" -> jmp(m, args[1], args[2])
           [] h = "jeq" -> jeq(m, args[1], args[2])
           [] h = "jne" -> jne(m, args[1], args[2])

\* ---- one iteration of the loop of CPU.run (cpu.py 237-257) ----------------
\* the exception of the three reads ram[PC], ram[PC + 1], ram[PC + 2]
FetchErr(m) ==
    IF IndexErr(m.PC, RamSize) # "none" THEN IndexErr(m.PC, RamSize)
    ELSE IF IndexErr(AddInt(m.PC, 1), RamSize) # "none"
    THEN IndexErr(AddInt(m.PC, 1), RamSize)
    ELSE IndexErr(AddInt(m.PC, 2), RamSize)

IR(m) == ram_read(m, m.PC)
OpA(m) == ram_read(m, AddInt(m.PC, 1))
OpB(m) == ram_read(m, AddInt(m.PC, 2))

\* the decoder: ir >> 6, (ir >> 4) & 1, (ir >> 5) & 1 of an int ir
\* faulty variant of NumOperands: shifted by 5 in place of 6
NumOperands_shift5(ir) == ir \div 32

NumOperands(ir) == ir \div 64

\* faulty variant of PCSet: the PC bit is never seen, every step advances
PCSet_never(ir) == 0

PCSet(ir) == (ir \div 16) % 2

ALUOperation(ir) == (ir \div 32) % 2

\* cpu.py 248-254: the handler of the table, called with the opcode first
\* when the ALU bit is set, or the report of an opcode the table lacks
Dispatch(m, ir, op_a, op_b) ==
    IF ir.n \in DOMAIN branch_table
    THEN Invoke(branch_table[ir.n], m,
                IF ALUOperation(ir.n) = 1 THEN <<ir, op_a, op_b>>
                                          ELSE <<op_a, op_b>>)
    ELSE [m EXCEPT !.out = Append(@, UnsupportedLine)]

\* faulty variant of Advance: the byte of the opcode itself is not counted
Advance_operands(r, ir) ==
    IF r.exc # "none" THEN r
    ELSE IF PCSet(ir) = 0
    THEN [r EXCEPT !.PC = AddInt(@, NumOperands(ir))]
    ELSE r

\* cpu.py 256-257: the default advance, skipped when the PC bit is set
Advance(r, ir) ==
    IF r.exc # "none" THEN r
    ELSE IF PCSet(ir) = 0
    THEN [r EXCEPT !.PC = AddInt(@, NumOperands(ir) + 1)]
    ELSE r

run(m) ==
    IF FetchErr(m) # "none" THEN Raise(m, FetchErr(m))
    ELSE IF IR(m).f THEN Raise(m, "TypeError")
    ELSE Advance(Dispatch(m, IR(m), OpA(m), OpB(m)), IR(m).n)

\* ---- the program images handed to load (cpu.py 152-165) --------------------
Vals == 0..MaxImm
Regs == 0..(NumRegs - 1)
TableOps == DOMAIN branch_table
UnknownOps == (0..255) \ TableOps
BinaryOps == {ADD, SUB, MUL, DIV, MOD, CMP, AND, OR, XOR, SHL, SHR}
AluOps == BinaryOps \cup {INC, DEC, NOT}
StackTops == {0, 1, 9, 10, InitSP, 255}

\* LDI a,x; LDI b,y; op a,b; PRN a; HLT: every pair of registers
PairImages ==
    {<<LDI, a, v[1], LDI, b, v[2], op, a, b, PRN, a, HLT>> :
        a \in Regs, b \in Regs, v \in {<<1, 0>>, <<MaxImm, 2>>},
        op \in BinaryOps}

\* the same on R0, R1 with every pair of immediates
ArithImages ==
    {<<LDI, 0, x, LDI, 1, y, op, 0, 1, PRN, 0, HLT>> :
        x \in Vals, y \in Vals, op \in BinaryOps}

\* the same on a negative operand: NOT R0 first
NegImages ==
    {<<LDI, 0, x, LDI, 1, y, NOT, 0, op, ab[1], ab[2], PRN, ab[1], HLT>> :
        ab \in {<<0, 1>>, <<1, 0>>}, x \in Vals, y \in Vals, op \in BinaryOps}

\* an ALU instruction on the float left by DIV
FloatImages ==
    {<<LDI, 0, x, LDI, 1, y, DIV, 0, 1, op, ab[1], ab[2], PRN, ab[1], HLT>> :
        ab \in {<<0, 1>>, <<1, 0>>}, x \in Vals, y \in Vals, op \in AluOps}

\* every opcode byte without a handler, followed by HLTs
UnknownImages == {<<LDI, 0, 1, u, HLT, HLT, HLT, HLT, HLT>> : u \in UnknownOps}

\* LDI R7,k; LDI r,x; PUSH r; POP q; PRN r; HLT with q = r or the next register
StackImages ==
    {<<LDI, SP, k, LDI, r, x, PUSH, r, POP, (r + dq) % NumRegs, PRN, r, HLT>> :
        k \in StackTops, r \in Regs, dq \in 0..1, x \in {1, MaxImm}}

\* LDI r,8; CALL r; PRN r; HLT; and the subroutine at address 8
SubBodies ==
    {<<RET>>, <<PUSH, 0, POP, 1, RET>>, <<PUSH, 0, RET>>, <<POP, 1, RET>>,
     <<INC, 1, PRN, 1, RET>>, <<POP, 2, PUSH, 1, RET>>,
     <<LDI, 2, 14, CALL, 2, RET, RET>>, <<HLT>>}

CallImages ==
    {<<LDI, r, 8, CALL, r, PRN, r, HLT>> \o body :
        r \in Regs, body \in SubBodies}

\* LDI R0,x; LDI R1,y; CMP R0,R1; LDI r,t; J r; HLT; ...; t: PRN r; HLT
JumpImages ==
    {<<LDI, 0, x, LDI, 1, y, CMP, 0, 1, LDI, r, t, j, r, HLT, HLT,
       PRN, r, HLT>> :
        x \in 0..1, y \in 0..1, r \in Regs, t \in {16, 254, 255},
        j \in {JMP, JEQ, JNE}}

\* an instruction whose operand bytes name no register
BadRegImages ==
    {<<op, a, b, HLT>> : op \in TableOps, a \in {0, NumRegs, 255},
                         b \in {0, NumRegs}}

ScenarioImages ==
    {<<LDI, 0, 8, LDI, 1, 9, ADD, 0, 1, PRN, 0, HLT>>,
     <<LDI, 0, 1, CMP, 0, 1, CMP, 1, 0, CMP, 0, 0, CMP, 1, 0, HLT>>,
     <<LDI, 0, 3, LDI, 1, 0, LDI, 2, 9, PRN, 0, DEC, 0, CMP, 0, 1, JNE, 2,
       HLT>>}

\* floats and negative ints used as stack pointer, jump target, opcode and
\* operand bytes; 256.0 squared until it is inf, and inf - inf
CornerImages ==
    {<<LDI, 1, 2, DIV, SP, 1, PUSH, 0, HLT>>,
     <<LDI, 1, 2, DIV, SP, 1, POP, 0, HLT>>,
     <<LDI, 1, 2, DIV, SP, 1, RET>>,
     <<LDI, 1, 2, DIV, SP, 1, CALL, 0, HLT>>,
     <<LDI, 0, 7, LDI, 1, 2, DIV, 0, 1, PUSH, 0, POP, 2, PRN, 2, JMP, 2>>,
     <<LDI, 0, 7, LDI, 1, 2, DIV, 0, 1, PUSH, 0, RET>>,
     <<LDI, 0, 7, LDI, 1, 2, DIV, 0, 1, LDI, SP, 14, PUSH, 0, HLT, HLT>>,
     <<LDI, 0, 7, LDI, 1, 2, DIV, 0, 1, LDI, SP, 15, PUSH, 0, PRN, 0>>,
     <<LDI, 0, 7, LDI, 1, 2, DIV, 0, 1, LDI, SP, 16, PUSH, 0, SHL, 2, 0>>,
     <<NOT, 0, JMP, 0>>,
     <<LDI, 0, 2, NOT, 0, JMP, 0>>,
     <<NOT, SP, PUSH, 0, POP, 1, HLT>>,
     <<NOT, 0, LDI, SP, 8, PUSH, 0, HLT, HLT>>,
     <<LDI, 0, 64, NOT, 0, LDI, SP, 11, PUSH, 0, HLT, HLT>>,
     <<NOT, 0, LDI, SP, 9, PUSH, 0, PRN, 0, HLT>>,
     <<NOT, 0, LDI, SP, 10, PUSH, 0, SHL, 2, 0, HLT>>,
     <<NOT, 0, LDI, SP, 10, PUSH, 0, SHR, 2, 0, HLT>>,
     <<LDI, 0, 200, MUL, 0, 0, HLT>>,
     <<LDI, 0, 1, SHL, 0, 200, HLT>>,
     <<LDI, 0, 200, SHR, 0, 200, PRN, 0, HLT>>,
     <<LDI, 0, 0, JMP, 0>>,
     <<LDI, 0, 0, PRN, 0, JMP, 0>>,
     <<LDI, 0, 16, MUL, 0, 0, LDI, 1, 1, DIV, 0, 1, MUL, 0, 0, MUL, 0, 0,
       MUL, 0, 0, MUL, 0, 0, MUL, 0, 0, MUL, 0, 0, MUL, 0, 0, CMP, 0, 1,
       PUSH, 0, POP, 2, SUB, 0, 2, CMP, 0, 0, CMP, 0, 1, CMP, 2, 0,
       PRN, 0, PRN, 2, HLT>>}

\* HLT stored by PUSH at one of the last addresses t of the memory, then
\* JMP to t
EdgeImages ==
    {<<LDI, SP, (t + 1) % RamSize, LDI, 0, HLT, PUSH, 0, LDI, 1, t, JMP, 1>> :
        t \in {RamSize - 3, RamSize - 2, RamSize - 1}}

Images ==
    PairImages \cup ArithImages \cup NegImages \cup FloatImages \cup UnknownImages
    \cup StackImages \cup CallImages \cup JumpImages \cup BadRegImages
    \cup ScenarioImages \cup CornerImages \cup EdgeImages

\* the memory after CPU() and load(image): the bytes from address 0 on
load(image) ==
    [address \in 0..(RamSize - 1) |->
        IF address < Len(image) THEN IntV(image[address + 1]) ELSE IntV(0)]

\* ---- the bounds of the exploration ------------------------------------------
\* A step is explored when the doubles it computes are exact and its numbers
\* and output stay within the bounds: floats enter +, - only as exact values
\* or as inf and nan, enter * only as powers of two, enter /, % only as a
\* zero divisor, and SHL shifts by at most MaxShift.
InModel(m) ==
    (FetchErr(m) = "none" /\ ~(IR(m).f)) =>
        LET ir == IR(m).n
            a == OpA(m)
            b == OpB(m)
            aOK == IndexErr(a, NumRegs) = "none"
            bOK == IndexErr(b, NumRegs) = "none"
            x == m.reg[Slot(a, NumRegs)]
            y == m.reg[Slot(b, NumRegs)]
        IN  /\ (ir \in {PUSH, CALL, RET, POP}) => Exact(m.reg[SP])
            /\ (ir = POP /\ IndexErr(m.reg[SP], RamSize) = "none"
                  /\ aOK /\ Slot(a, NumRegs) = SP)
                  => Exact(ram_read(m, m.reg[SP]))
            /\ (ir \in {INC, DEC} /\ aOK) => Exact(x)
            /\ (ir \in {ADD, SUB} /\ aOK /\ bOK)
                  => \/ Exact(x) /\ Exact(y)
                     \/ NonFinite(x) /\ NonFinite(y)
            /\ (ir = MUL /\ aOK /\ bOK /\ (x.f \/ y.f))
                  => (IsTwoPower(x) /\ IsTwoPower(y))
            /\ (ir \in {DIV, MOD} /\ aOK /\ bOK /\ (x.f \/ y.f))
                  => IsZero(y)
            /\ (ir = SHL /\ aOK /\ ~(x.f) /\ ~(b.f)) => (b.n <= MaxShift)
            /\ (ir = PRN \/ ir \notin TableOps) => (Len(m.out) < MaxOut)

InRange(m) ==
    /\ \A i \in Regs : Abs(m.reg[i].n) <= MaxAbs /\ Abs(m.reg[i].d) <= MaxAbs
    /\ Abs(m.PC.n) <= MaxAbs /\ Abs(m.PC.d) <= MaxAbs

\* ---- the state machine ------------------------------------------------------
Dispatches(m, h) ==
    /\ FetchErr(m) = "none"
    /\ ~(IR(m).f)
    /\ IR(m).n \in DOMAIN branch_table
    /\ branch_table[IR(m).n] = h

\* the stack instructions of a run are counted up to MaxTally
InTally(m, t) ==
    /\ (Dispatches(m, "push") \/ Dispatches(m, "call")) => t.down < MaxTally
    /\ (Dispatches(m, "pop") \/ Dispatches(m, "ret")) => t.tried < MaxTally

NoFrame ==
    [open |-> FALSE, intact |-> FALSE, returned |-> FALSE,
     p |-> IntV(0), sp |-> IntV(0)]

\* the stack pointer is where the CALL of the frame left it
Balanced(fr, m) == m.reg[SP] = AddInt(fr.sp, 0 - 1)

\* the frame after the step from machine m to machine m2
NextFrame(fr, m, m2) ==
    IF Dispatches(m, "call") /\ m2.exc = "none"
    THEN [open |-> TRUE, intact |-> TRUE, returned |-> FALSE,
          p |-> m.PC, sp |-> m.reg[SP]]
    ELSE IF Dispatches(m, "ret") /\ fr.open
    THEN [fr EXCEPT !.open = FALSE,
                    !.returned = fr.intact /\ Balanced(fr, m)
                                 /\ m2.exc = "none"]
    ELSE [fr EXCEPT !.returned = FALSE,
                    !.intact = fr.open /\ fr.intact
                               /\ ram_read(m2, AddInt(fr.sp, 0 - 1))
                                    = ram_read(m, AddInt(fr.sp, 0 - 1))]

\* the instruction fetched by machine m writes its result to register 7:
\* LDI, POP or an ALU instruction other than CMP whose first operand byte
\* indexes self.reg[7]
NamesSP(m) ==
    /\ FetchErr(m) = "none"
    /\ ~(IR(m).f)
    /\ IR(m).n \in {LDI, POP} \cup (AluOps \ {CMP})
    /\ IndexErr(OpA(m), NumRegs) = "none"
    /\ Slot(OpA(m), NumRegs) = SP

\* the tally after the step from machine m to machine m2
NextTally(t, m, m2) ==
    LET lowers == Dispatches(m, "push") \/ Dispatches(m, "call")
        raises == Dispatches(m, "pop") \/ Dispatches(m, "ret")
    IN  [named |-> t.named \/ NamesSP(m),
         down |-> t.down + (IF lowers THEN 1 ELSE 0),
         tried |-> t.tried + (IF raises THEN 1 ELSE 0),
         up |-> t.up + (IF raises /\ m2.exc = "none" THEN 1 ELSE 0)]

\* the machine after CPU() and load(image)
Init ==
    /\ \E image \in Images :
          cpu = [ram |-> load(image),
                 reg |-> [i \in Regs |-> IF i = SP THEN IntV(InitSP)
                                                   ELSE IntV(0)],
                 PC |-> IntV(0),
                 FL |-> 0,
                 out |-> <<>>,
                 exc |-> "none"]
    /\ prev = [valid |-> FALSE, m |-> cpu]
    /\ prev2 = [valid |-> FALSE, m |-> cpu]
    /\ frame = NoFrame
    /\ tally = [named |-> FALSE, down |-> 0, tried |-> 0, up |-> 0]

Step ==
    /\ cpu.exc = "none"
    /\ InModel(cpu)
    /\ InTally(cpu, tally)
    /\ cpu' = run(cpu)
    /\ InRange(cpu')
    /\ prev' = [valid |-> TRUE, m |-> cpu]
    /\ prev2' = prev
    /\ frame' = NextFrame(frame, cpu, cpu')
    /\ tally' = NextTally(tally, cpu, cpu')

FetchFault == (FetchErr(cpu) # "none" \/ IR(cpu).f) /\ Step
Unsupported ==
    /\ FetchErr(cpu) = "none"
    /\ ~(IR(cpu).f)
    /\ IR(cpu).n \notin DOMAIN branch_table
    /\ Step
Hlt == Dispatches(cpu, "hlt") /\ Step
Ldi == Dispatches(cpu, "ldi") /\ Step
Prn == Dispatches(cpu, "prn") /\ Step
Pop == Dispatches(cpu, "pop") /\ Step
Push == Dispatches(cpu, "push") /\ Step
Call == Dispatches(cpu, "call") /\ Step
Ret == Dispatches(cpu, "ret") /\ Step
Jmp == Dispatches(cpu, "jmp") /\ Step
Jeq == Dispatches(cpu, "jeq") /\ Step
Jne == Dispatches(cpu, "jne") /\ Step
Alu == Dispatches(cpu, "alu") /\ Step

Next ==
    \/ FetchFault
    \/ Unsupported
    \/ Hlt
    \/ Ldi
    \/ Prn
    \/ Pop
    \/ Push
    \/ Call
    \/ Ret
    \/ Jmp
    \/ Jeq
    \/ Jne
    \/ Alu

Spec == Init /\ [][Next]_vars

\* the loop of CPU.run goes on to its next iteration as long as nothing is
\* raised: a step that can be taken is taken
LiveSpec == Init /\ [][Next]_vars /\ WF_vars(Next)

Running == cpu.exc = "none"
Halted == cpu.exc = "SystemExit"

\* ---- what the last step did ---------------------------------------------------
\* the last step fetched an int opcode and its operand bytes
Fetched == prev.valid /\ FetchErr(prev.m) = "none" /\ ~(IR(prev.m).f)
LastIR == IR(prev.m).n
LastA == OpA(prev.m)
LastB == OpB(prev.m)
\* the operand bytes of the last step name registers 0..7
NamesRegs == ~(LastA.f) /\ ~(LastB.f) /\ LastA.n \in Regs /\ LastB.n \in Regs
\* the last step ran the handler h to its end
Ran(h) == prev.valid /\ Dispatches(prev.m, h) /\ cpu.exc = "none"
PreA == prev.m.reg[LastA.n]
PreB == prev.m.reg[LastB.n]

\* floor(a / b) for b # 0
FloorDiv(a, b) == IF b > 0 THEN a \div b ELSE (0 - a) \div (0 - b)

\* ---- C1 ------------------------------------------------------------------------
\* C1 (as claimed): a step that fetches an opcode byte without an entry in the
\* branch table ends no run and leaves PC at the next instruction, the old PC
\* plus (opcode >> 6) + 1, so the same opcode is not fetched at the same PC again.
C1_UnknownOpcodeSkipped ==
    (Fetched /\ LastIR \in UnknownOps) =>
        /\ cpu.exc = "none"
        /\ cpu.out = Append(prev.m.out, UnsupportedLine)
        /\ cpu.PC = AddInt(prev.m.PC, NumOperands(LastIR) + 1)
        /\ cpu.PC # prev.m.PC

\* ---- C2 ------------------------------------------------------------------------
\* C2 (as claimed): a step that fetches an opcode byte with the ALU bit (bit 5)
\* set that is none of the ALU cases aborts the run with the "Unsupported ALU
\* operation" exception instead of printing a warning and continuing.
C2_UnknownAluFatal ==
    (Fetched /\ LastIR \in 0..255 /\ ALUOperation(LastIR) = 1
        /\ LastIR \notin AluOps) =>
        /\ cpu.exc = "Exception: Unsupported ALU operation"
        /\ cpu.out = prev.m.out

\* ---- C3 ------------------------------------------------------------------------
\* C3: after ADD, SUB, MUL or MOD regA, regB on int register values (MOD with
\* a non-zero divisor), regA holds the sum, difference, product or remainder
\* of the two pre-instruction values, in that operand order; the remainder r
\* of x by y is the int between 0 and y (y excluded) with x = q*y + r.
C3_IntArithmetic ==
    (Ran("alu") /\ LastIR \in {ADD, SUB, MUL, MOD} /\ NamesRegs
        /\ ~(PreA.f) /\ ~(PreB.f)) =>
        LET x == PreA.n
            y == PreB.n
            r == cpu.reg[LastA.n]
        IN  /\ ~(r.f) /\ r.d = 1
            /\ LastIR = ADD => r.n = x + y
            /\ LastIR = SUB => r.n = x - y
            /\ LastIR = MUL => r.n = x * y
            /\ LastIR = MOD =>
                  /\ y # 0
                  /\ (y > 0 => (0 <= r.n /\ r.n < y))
                  /\ (y < 0 => (y < r.n /\ r.n <= 0))
                  /\ x = FloorDiv(x, y) * y + r.n

\* MOD has run on a negative dividend and a positive divisor of another register
C3_Witness ==
    /\ Ran("alu") /\ LastIR = MOD /\ NamesRegs
    /\ ~(PreA.f) /\ ~(PreB.f)
    /\ PreA.n < 0 /\ PreB.n > 1 /\ LastA.n # LastB.n
    /\ cpu.reg[LastA.n] = IntV(1)

\* ---- C4 ------------------------------------------------------------------------
\* C4 (as claimed): after DIV regA, regB on int values with a non-zero divisor,
\* regA holds the integer quotient of the two pre-instruction values, an int
\* also when the divisor does not divide the dividend.
C4_IntegerQuotient ==
    (Ran("alu") /\ LastIR = DIV /\ NamesRegs /\ ~(PreA.f) /\ ~(PreB.f)) =>
        /\ PreB.n # 0
        /\ cpu.reg[LastA.n] = IntV(FloorDiv(PreA.n, PreB.n))

\* ---- C5 ------------------------------------------------------------------------
ArithOps == {ADD, SUB, MUL, DIV, MOD}

\* C5 (as claimed): after ADD, SUB, MUL, DIV or MOD regA, regB, for every regA
\* and regB in 0..7, regB holds its pre-instruction value and no register
\* other than regA has changed.
C5_SourceUnchanged ==
    (Ran("alu") /\ LastIR \in ArithOps /\ NamesRegs) =>
        /\ cpu.reg[LastB.n] = PreB
        /\ \A i \in Regs : i # LastA.n => cpu.reg[i] = prev.m.reg[i]

\* C5 (amended): after ADD, SUB, MUL, DIV or MOD regA, regB, no register other
\* than regA has changed; so regB holds its pre-instruction value whenever
\* regB is another register than regA.
C5_Frame ==
    (Ran("alu") /\ LastIR \in ArithOps /\ NamesRegs) =>
        /\ LastB.n # LastA.n => cpu.reg[LastB.n] = PreB
        /\ \A i \in Regs : i # LastA.n => cpu.reg[i] = prev.m.reg[i]

\* an arithmetic instruction on two different registers has changed regA
C5_Witness ==
    /\ Ran("alu") /\ LastIR \in ArithOps /\ NamesRegs
    /\ LastB.n # LastA.n
    /\ cpu.reg[LastA.n] # PreA
    /\ PreB # IntV(0)

\* ---- C6 ------------------------------------------------------------------------
\* C6: DIV or MOD regA, regB executed while regB holds 0 ends the run with a
\* division-by-zero error and changes nothing: regA and every other register,
\* the flags, the memory, the PC and the output are as before the instruction.
C6_DivisionByZero ==
    (prev.valid /\ Dispatches(prev.m, "alu") /\ LastIR \in {DIV, MOD}
        /\ NamesRegs /\ IsZero(PreB)) =>
        /\ cpu.exc = "ZeroDivisionError"
        /\ cpu.reg = prev.m.reg
        /\ cpu.FL = prev.m.FL
        /\ cpu.ram = prev.m.ram
        /\ cpu.PC = prev.m.PC
        /\ cpu.out = prev.m.out

\* DIV has run on a non-zero dividend and a zero divisor
C6_Witness ==
    /\ prev.valid /\ Dispatches(prev.m, "alu") /\ LastIR = DIV
    /\ NamesRegs /\ IsZero(PreB) /\ PreA.n # 0
    /\ cpu.exc = "ZeroDivisionError"

\* ---- C7 ------------------------------------------------------------------------
\* C7 (as claimed): for every pair of register values, CMP regA, regB sets the
\* flags register to exactly one bit, 4 when regA < regB, 2 when regA > regB,
\* 1 when the values match, whatever the flags were before, and changes no
\* register.
C7_CmpFlags ==
    (Ran("alu") /\ LastIR = CMP /\ NamesRegs) =>
        /\ cpu.FL = (IF Less(PreA, PreB) THEN 4
                     ELSE IF Less(PreB, PreA) THEN 2
                     ELSE 1)
        /\ cpu.reg = prev.m.reg

\* ---- C8 ------------------------------------------------------------------------
\* the last two steps were PUSH r, run to its end, and then POP r
PushThenPop ==
    /\ prev2.valid /\ prev.valid
    /\ Dispatches(prev2.m, "push") /\ prev.m.exc = "none"
    /\ Dispatches(prev.m, "pop")
    /\ ~(OpA(prev2.m).f) /\ OpA(prev2.m).n \in Regs
    /\ OpA(prev.m) = OpA(prev2.m)

\* C8: PUSH r that succeeds followed immediately by POP r leaves register r
\* with the value it had before the PUSH and the stack pointer (register 7)
\* where it was before the PUSH, for every r in 0..7.
C8_PushPopRoundTrip ==
    PushThenPop =>
        /\ cpu.exc = "none"
        /\ cpu.reg[OpA(prev.m).n] = prev2.m.reg[OpA(prev.m).n]
        /\ cpu.reg[SP] = prev2.m.reg[SP]

\* PUSH r; POP r has run on a non-zero register other than the stack pointer
C8_Witness ==
    /\ PushThenPop
    /\ OpA(prev.m).n # SP
    /\ prev2.m.reg[OpA(prev.m).n] # IntV(0)
    /\ cpu.exc = "none"

\* ---- C9 ------------------------------------------------------------------------
\* C9: when the RET of a called subroutine runs with the stack balanced and
\* the return slot unchanged since the CALL at address p, it leaves PC at
\* p + 2, the instruction after the CALL, and the stack pointer at its value
\* before the CALL; neither instruction gets the default advance on top.
C9_CallRet ==
    /\ (Ran("call") /\ ~(LastA.f) /\ LastA.n \in Regs) =>
          /\ frame.open /\ frame.p = prev.m.PC
          /\ cpu.reg[SP] = AddInt(prev.m.reg[SP], 0 - 1)
          /\ ram_read(cpu, cpu.reg[SP]) = AddInt(prev.m.PC, 2)
          /\ cpu.PC = (IF LastA.n = SP THEN cpu.reg[SP] ELSE PreA)
    /\ frame.returned =>
          /\ Ran("ret")
          /\ cpu.PC = AddInt(frame.p, 2)
          /\ cpu.reg[SP] = frame.sp

\* a subroutine with a body has returned to the instruction after its CALL
C9_Witness ==
    /\ frame.returned
    /\ ~(Dispatches(prev2.m, "call"))
    /\ cpu.PC = IntV(5)

\* ---- C10 -----------------------------------------------------------------------
\* C10: JEQ r fetched at p leaves PC equal to reg[r] when bit 0 of FL is set
\* and to p + 2 when it is clear; JNE r leaves PC equal to reg[r] when bit 0
\* is clear and to p + 2 when it is set; no default advance is added.
C10_CondJump ==
    /\ (Ran("jeq") /\ ~(LastA.f) /\ LastA.n \in Regs) =>
          cpu.PC = (IF prev.m.FL % 2 = 1 THEN PreA ELSE AddInt(prev.m.PC, 2))
    /\ (Ran("jne") /\ ~(LastA.f) /\ LastA.n \in Regs) =>
          cpu.PC = (IF prev.m.FL % 2 = 0 THEN PreA ELSE AddInt(prev.m.PC, 2))

\* JEQ has been taken on the equal flag to a target that is not p + 2
C10_Witness ==
    /\ Ran("jeq") /\ prev.m.FL = 1
    /\ cpu.PC = IntV(16)
    /\ prev.m.PC = IntV(12)

\* ---- C11 -----------------------------------------------------------------------
UnaryOps == {INC, DEC, NOT}

\* the last step ran INC, DEC or NOT regA to its end, regA one of 0..7
RanUnary == Ran("alu") /\ LastIR \in UnaryOps /\ ~(LastA.f) /\ LastA.n \in Regs

\* regA after INC, DEC, NOT is the old value plus 1, minus 1, complemented
\* (a float plus or minus 1 for INC and DEC on a float), no other register
\* has changed
UnaryEffect ==
    LET x == PreA
        r == cpu.reg[LastA.n]
    IN  /\ r.f = x.f
        /\ LastIR = INC => r.n * x.d = (x.n + x.d) * r.d
        /\ LastIR = DEC => r.n * x.d = (x.n - x.d) * r.d
        /\ LastIR = NOT => (~(x.f) /\ r = IntV(0 - x.n - 1))
        /\ \A i \in Regs : i # LastA.n => cpu.reg[i] = prev.m.reg[i]

\* C11 (as claimed): INC, DEC or NOT regA fetched at address p changes regA by
\* +1, -1 or bitwise complement and leaves PC at p + 3.
C11_UnaryAdvance3 ==
    RanUnary => (UnaryEffect /\ cpu.PC = IntV(prev.m.PC.n + 3))

\* C11 (amended): INC, DEC or NOT regA fetched at address p changes regA by
\* +1, -1 or bitwise complement and leaves PC at p + 2: these opcodes carry
\* the operand count 1 in their top two bits.
C11_UnaryAdvance2 ==
    RanUnary => (UnaryEffect /\ cpu.PC = IntV(prev.m.PC.n + 2))

\* DEC has run at address 11 on a register holding 3
C11_Witness ==
    /\ RanUnary /\ LastIR = DEC
    /\ PreA = IntV(3) /\ cpu.reg[LastA.n] = IntV(2)
    /\ prev.m.PC = IntV(11) /\ cpu.PC = IntV(13)

\* ---- C12 -----------------------------------------------------------------------
\* C12 (as claimed): SHL regA, regB and SHR regA, regB leave in regA the old
\* value of regA shifted left / right by the value held in register regB, for
\* every pair of registers (int values, shift counts 0..MaxShift).
C12_ShiftByRegister ==
    (Ran("alu") /\ LastIR \in {SHL, SHR} /\ NamesRegs
        /\ ~(PreA.f) /\ ~(PreB.f) /\ PreB.n \in 0..MaxShift) =>
        cpu.reg[LastA.n] =
            (IF LastIR = SHL THEN IntV(PreA.n * Pow2(PreB.n))
                             ELSE IntV(ShiftRight(PreA.n, PreB.n)))

\* ---- C13 -----------------------------------------------------------------------
\* C13: executing HLT moves the run from Running to Halted at once, with every
\* register, the flags, the memory, the PC and the output unchanged; Halted
\* is terminal, no step is taken from it; and the run is Halted only by HLT.
C13_HaltOnlyByHlt ==
    /\ (prev.valid /\ Dispatches(prev.m, "hlt")) =>
          /\ Halted
          /\ cpu.reg = prev.m.reg /\ cpu.FL = prev.m.FL
          /\ cpu.ram = prev.m.ram /\ cpu.PC = prev.m.PC
          /\ cpu.out = prev.m.out
    /\ Halted => (prev.valid /\ Dispatches(prev.m, "hlt") /\ IR(prev.m).n = HLT)
    /\ Halted => ~(ENABLED Next)

\* HLT has run after other instructions, at a PC other than 0
C13_Witness ==
    /\ Halted /\ prev.valid /\ Dispatches(prev.m, "hlt")
    /\ cpu.PC = IntV(11) /\ Len(cpu.out) = 1

\* ---- C14 -----------------------------------------------------------------------
\* LDI R0,8; LDI R1,9; ADD R0,R1; PRN R0; HLT
Image17 == <<LDI, 0, 8, LDI, 1, 9, ADD, 0, 1, PRN, 0, HLT>>

\* the machine as constructed, with the given image loaded, before any step
Loaded(image) ==
    /\ ~(prev.valid)
    /\ cpu.ram = load(image)
    /\ cpu.PC = IntV(0) /\ cpu.FL = 0 /\ cpu.out = <<>>
    /\ cpu.reg = [i \in Regs |-> IF i = SP THEN IntV(244) ELSE IntV(0)]

Done17 == Halted /\ cpu.out = <<NumberLine(IntV(17))>>

\* C14: the run of LDI R0,8; LDI R1,9; ADD R0,R1; PRN R0; HLT from the initial
\* machine eventually halts, with the single line 17 as its whole output.
C14_Prints17 == Loaded(Image17) ~> Done17

\* the run of the image has halted after printing 17
C14_Witness == Done17 /\ cpu.ram = load(Image17) /\ cpu.PC = IntV(11)

\* ---- C15 -----------------------------------------------------------------------
\* LDI R0,3; LDI R1,0; LDI R2,9; loop: PRN R0; DEC R0; CMP R0,R1; JNE R2; HLT
CountdownImage ==
    <<LDI, 0, 3, LDI, 1, 0, LDI, 2, 9, PRN, 0, DEC, 0, CMP, 0, 1, JNE, 2, HLT>>

DoneCountdown ==
    /\ Halted
    /\ cpu.out = <<NumberLine(IntV(3)), NumberLine(IntV(2)), NumberLine(IntV(1))>>

\* C15: the run of the countdown loop (DEC of the counter, CMP against a zero
\* register, JNE back to the PRN) eventually halts, with the lines 3, 2, 1
\* in that order as its whole output.
C15_Countdown == Loaded(CountdownImage) ~> DoneCountdown

\* the loop has halted after three rounds, the counter at 0
C15_Witness ==
    /\ DoneCountdown /\ cpu.ram = load(CountdownImage)
    /\ cpu.reg[0] = IntV(0) /\ cpu.PC = IntV(18)

\* ---- C16 -----------------------------------------------------------------------
\* the last step fetched an opcode byte whose PC bit (bit 4) is clear and ran
\* to its end: the PC has moved by the default advance
DefaultAdvanced ==
    /\ Fetched /\ LastIR \in 0..255 /\ (LastIR \div 16) % 2 = 0
    /\ cpu.exc = "none"

\* the distance the PC has moved in the last step
Moved == cpu.PC.n - prev.m.PC.n

\* C16 (as claimed): for every opcode byte 0..255 the operand count
\* (opcode >> 6) is 0, 1 or 2, so the default advance of the PC in one step
\* is at most 3.
C16_AdvanceAtMost3 ==
    /\ (Fetched /\ LastIR \in 0..255) => NumOperands(LastIR) \in {0, 1, 2}
    /\ DefaultAdvanced => Moved <= 3

\* C16 (amended): for every opcode byte 0..255 the operand count (opcode >> 6)
\* is 0, 1, 2 or 3, 3 for the bytes 192..255, so the default advance of the PC
\* in one step is at most 4; it is at most 3 for every byte below 192, which
\* includes every opcode of the branch table.
C16_AdvanceAtMost4 ==
    /\ (Fetched /\ LastIR \in 0..255) =>
          /\ NumOperands(LastIR) \in {0, 1, 2, 3}
          /\ NumOperands(LastIR) = 3 <=> LastIR >= 192
          /\ LastIR \in TableOps => LastIR < 192
    /\ DefaultAdvanced =>
          /\ ~(cpu.PC.f) /\ Moved \in 1..4
          /\ 64 * (Moved - 1) <= LastIR /\ LastIR < 64 * Moved
          /\ LastIR < 192 => Moved <= 3

\* the opcode byte 192 has moved the PC by 4
C16_Witness ==
    /\ DefaultAdvanced /\ LastIR = 192
    /\ prev.m.PC = IntV(3) /\ cpu.PC = IntV(7)

\* ---- C17 -----------------------------------------------------------------------
\* C17 (as claimed): the fetch of the opcode at PC and of the two bytes at
\* PC + 1 and PC + 2 fails for no PC in 0..255 with an out-of-range access, so
\* HLT placed at any address of the memory executes normally.
C17_FetchSafe ==
    (prev.valid /\ ~(prev.m.PC.f) /\ prev.m.PC.n \in 0..(RamSize - 1)) =>
        /\ FetchErr(prev.m) = "none"
        /\ prev.m.ram[prev.m.PC.n] = IntV(HLT) => Halted

\* ---- C18 -----------------------------------------------------------------------
\* C18: FL is 0 before the first step and 0 or exactly one of 1, 2, 4 in
\* every reachable state; a step that executes any instruction other than
\* CMP, an unknown opcode included, or that fails, leaves FL as it was.
C18_FlagsOnlyByCmp ==
    /\ cpu.FL \in {0, 1, 2, 4}
    /\ (prev.valid /\ ~(Fetched /\ LastIR = CMP)) => cpu.FL = prev.m.FL
    /\ ~(prev.valid) => cpu.FL = 0

\* JNE has run on the less-than flag and has left it
C18_Witness ==
    /\ Ran("jne") /\ prev.m.FL = 4 /\ cpu.FL = 4
    /\ cpu.PC # AddInt(prev.m.PC, 2)

\* ---- C19 -----------------------------------------------------------------------
\* C19 (as claimed): every memory cell holds an int in 0..255 in every
\* reachable state: PUSH and CALL store no value outside that range.
C19_MemoryBytes ==
    \A address \in 0..(RamSize - 1) :
        /\ ~(cpu.ram[address].f)
        /\ cpu.ram[address].n \in 0..255

\* ---- C20 -----------------------------------------------------------------------
\* what the last step did to the stack pointer and the memory, in a run that
\* has not named register 7 as a destination: PUSH and CALL have lowered SP by
\* 1 and then written memory[SP]; a POP or RET counted by "raised" has read
\* memory[SP] and then raised SP by 1; any other step has left SP alone
StackStep(raised) ==
    LET lowered == Dispatches(prev.m, "push") \/ Dispatches(prev.m, "call")
        sp0 == prev.m.reg[SP]
    IN  /\ lowered => cpu.reg[SP] = AddInt(sp0, 0 - 1)
        /\ Ran("push") => ram_read(cpu, cpu.reg[SP])
                            = cpu.reg[Slot(LastA, NumRegs)]
        /\ Ran("call") => ram_read(cpu, cpu.reg[SP]) = AddInt(prev.m.PC, 2)
        /\ raised => cpu.reg[SP] = AddInt(sp0, 1)
        /\ (raised /\ Dispatches(prev.m, "pop") /\ cpu.exc = "none") =>
              cpu.reg[Slot(LastA, NumRegs)] = ram_read(prev.m, sp0)
        /\ (raised /\ Dispatches(prev.m, "ret") /\ cpu.exc = "none") =>
              cpu.PC = ram_read(prev.m, sp0)
        /\ (~lowered /\ ~raised) => cpu.reg[SP] = sp0

\* C20 (as claimed): in a run that never names register 7 as the destination
\* of LDI, POP or an ALU instruction, after every step SP = 0xF4 - (PUSH and
\* CALL executed) + (POP and RET executed); PUSH and CALL lower SP by 1 before
\* writing memory[SP], POP and RET raise it by 1 after reading memory[SP], and
\* no other instruction changes it.
C20_SpAccounting ==
    ~(tally.named) =>
        /\ cpu.reg[SP] = IntV(244 - tally.down + tally.tried)
        /\ prev.valid =>
              StackStep(Dispatches(prev.m, "pop") \/ Dispatches(prev.m, "ret"))

\* C20 (amended): in such a run, after every step SP = 0xF4 - (PUSH and CALL
\* executed) + (POP and RET that ran to their end); PUSH and CALL lower SP by
\* 1 before writing memory[SP], also when they then fail; a POP or RET that
\* runs to its end raises SP by 1 after reading memory[SP]; a POP that fails
\* and every other instruction leave SP as it was.
C20_SpAccountingCompleted ==
    ~(tally.named) =>
        /\ cpu.reg[SP] = IntV(244 - tally.down + tally.up)
        /\ prev.valid => StackStep(Ran("pop") \/ Ran("ret"))

\* a subroutine that pushes and pops has returned: two down, two up
C20_Witness ==
    /\ ~(tally.named) /\ tally.down = 2 /\ tally.up = 2
    /\ Ran("ret") /\ cpu.reg[SP] = IntV(244)

====
